---- MODULE Spec2Model ----
(***************************************************************************)
(* Satellite monitoring subsystem of the Nuwa backend                      *)
(* (app/satellite): the provider clients (Mock, Sentinel-2, Landsat) and    *)
(* the orchestrating SatelliteDataService.                                  *)
(*                                                                         *)
(* Conventions of the model                                                *)
(*  - a datetime.date is its proleptic Gregorian ordinal, DateMin..DateMax; *)
(*    date + timedelta raises OverflowError outside that range;            *)
(*  - a coordinate is an integer number of tenths of a degree;             *)
(*  - an area in hectares is an integer number of 1/100 hectare;           *)
(*  - random.* draws and the answers of the remote catalogs are            *)
(*    nondeterministic choices;                                            *)
(*  - a Python call either returns or raises: an outcome is a string, the   *)
(*    exception's class name when it raises.                               *)
(***************************************************************************)
EXTENDS Integers, Sequences, FiniteSets, TLC

VARIABLES
    pc,              \* position of the analysis request (the one coroutine)
    req,             \* arguments of get_project_satellite_analysis
    clients_to_use,  \* list returned by _select_clients
    idx,             \* 1-based position of the for loop in clients_to_use
    sub,             \* outcomes of the four gathered tasks of the current client
    results,         \* the results dict, as the list of its items in insertion order
    ret,             \* what get_project_satellite_analysis returned or raised
    creds,           \* creds[c]: username and password configured for client c
    session,         \* session[c]: c holds a live handle (_api_client / _session_token)
    call,            \* direct call of one client operation: its arguments
    outcome,         \* direct call of one client operation: its outcome
    logins,          \* login requests posted by _authenticate since the fan-out began
    default_client   \* SatelliteDataService.default_client

vars ==
    <<pc, req, clients_to_use, idx, sub, results, ret, creds, session, call, outcome,
      logins, default_client>>

-----------------------------------------------------------------------------
(* Bounds of the model *)

\* longest caller preference list that is enumerated
MaxPrefLen == 2

\* longest monitoring period (analysis_date - project_start_date, in days) that
\* is enumerated
MaxPeriodDays == 45

-----------------------------------------------------------------------------
(* Dates *)

\* date.min.toordinal() and date.max.toordinal()
DateMin == 1
DateMax == 3652059

\* date.today() at line 89: the ordinal of 2026-11-02
Today == 739922

\* dates the callers are drawn from: 45 and 10 days ago, and the last weeks of
\* the calendar (date.max - 40, date.max - 12, date.max)
DateSet == {Today - 45, Today - 10, DateMax - 40, DateMax - 12, DateMax}

\* an absent analysis_date (no date has ordinal 0)
NoDate == 0

\* date + timedelta(days=days) raises OverflowError
DateOverflows(d, days) == d + days > DateMax \/ d + days < DateMin

Min(a, b) == IF a <= b THEN a ELSE b
Max(a, b) == IF a >= b THEN a ELSE b
Abs(x) == IF x < 0 THEN -x ELSE x

-----------------------------------------------------------------------------
(* Geographic bounds: <<min_lon, min_lat, max_lon, max_lat>> *)

BoundsSet ==
    { <<-740, 46, -739, 47>>,     \* the tests' project area near Bogota
      <<0, -10, 10, 10>>,         \* valid, centred on the equator
      <<10, 10, 10, 20>>,         \* min_lon = max_lon
      <<0, 890, 10, 910>>,        \* max_lat above 90 degrees
      <<1790, 0, 1810, 10>> }     \* max_lon above 180 degrees

validate_bounds(b) ==
    LET min_lon == b[1]
        min_lat == b[2]
        max_lon == b[3]
        max_lat == b[4]
    IN  IF ~(-1800 <= min_lon /\ min_lon <= 1800 /\ -1800 <= max_lon /\ max_lon <= 1800)
        THEN FALSE
        ELSE IF ~(-900 <= min_lat /\ min_lat <= 900 /\ -900 <= max_lat /\ max_lat <= 900)
        THEN FALSE
        ELSE IF min_lon >= max_lon \/ min_lat >= max_lat
        THEN FALSE
        ELSE TRUE

\* 111320 * 0.017453292519943295 * 110540 / 10000 = 21476.9 hectares per square
\* degree and per degree of mean latitude; coordinates are tenths of a degree and
\* the two latitudes are summed rather than averaged (a further 1/2000), which
\* gives 10.74 ha, that is 1074 hundredths of a hectare
HectareScale == 1074

calculate_area_hectares(b) ==
    LET min_lon == b[1]
        min_lat == b[2]
        max_lon == b[3]
        max_lat == b[4]
        lat_sum == min_lat + max_lat                 \* 2 * lat_avg
        lon_deg_to_m == Abs(lat_sum)                 \* 111320 * abs(lat_avg * pi/180)
        width_m == (max_lon - min_lon) * lon_deg_to_m
        height_m == (max_lat - min_lat)
    IN  width_m * height_m * HectareScale

-----------------------------------------------------------------------------
(* The registry of clients built by _initialize_clients *)

clients == {"mock", "sentinel2", "landsat"}

\* SatelliteDataClient.name of the client registered under a key
client_name(c) ==
    CASE c = "mock" -> "MockSatellite"
      [] c = "sentinel2" -> "Sentinel-2"
      [] c = "landsat" -> "Landsat"

\* the clients that take credentials
LiveClients == {"sentinel2", "landsat"}

-----------------------------------------------------------------------------
(* The synthetic scene calendars                                            *)
(*   current_date = start_date                                              *)
(*   while current_date <= end_date:                                        *)
(*       if random.random() > p: imagery_list.append(scene(current_date))   *)
(*       current_date += timedelta(days=<random step>)                      *)

\* the steps each generator draws: random.randint(3, 16), random.randint(5, 10),
\* random.choice([8, 16])
RevisitSteps(c) ==
    CASE c = "mock" -> 3..16
      [] c = "sentinel2" -> 5..10
      [] c = "landsat" -> {8, 16}

\* the values current_date can take, found from the frontier of new ones
RECURSIVE LoopDates(_, _, _, _)
LoopDates(seen, frontier, end_date, Steps) ==
    IF frontier = {} THEN seen
    ELSE LET stepped == {d + s : d \in {f \in frontier : f <= end_date}, s \in Steps}
             new == {d \in stepped : d <= DateMax} \ seen
         IN  LoopDates(seen \cup new, new, end_date, Steps)

\* what a run of the loop can end in: "OverflowError" when a step leaves the
\* calendar, else the list, "empty" or "nonempty" (only that is kept of it)
SimulatedScenes(start_date, end_date, Steps) ==
    IF start_date > end_date THEN {"empty"}
    ELSE LET visited == LoopDates({start_date}, {start_date}, end_date, Steps)
             overflow == \E d \in visited : d <= end_date /\ \E s \in Steps : d + s > DateMax
             leaves == \E d \in visited : d > end_date
         IN  (IF overflow THEN {"OverflowError"} ELSE {})
             \cup (IF leaves THEN {"empty", "nonempty"} ELSE {})

IsList(res) == res \in {"empty", "nonempty"}

\* outcome of an imagery query: res is the list or the exception, src where a
\* returned list came from, net what happened to the live access, sess the handle
\* the client holds afterwards
ImageryOutcome(res, src, net, sess) == [res |-> res, src |-> src, net |-> net, sess |-> sess]

_get_simulated_metadata(c, net, sess, start_date, end_date) ==
    { ImageryOutcome(o, "synthetic", net, sess) :
        o \in SimulatedScenes(start_date, end_date, RevisitSteps(c)) }

-----------------------------------------------------------------------------
(* get_imagery_metadata *)

Mock_get_imagery_metadata(sess, b, start_date, end_date) ==
    IF ~validate_bounds(b)
    THEN {ImageryOutcome("ValueError", "none", "none", sess)}
    ELSE _get_simulated_metadata("mock", "none", sess, start_date, end_date)

\* what the remote catalog can do to a query of an authenticated client
CatalogAnswers == {"query_raised", "http_error", "api_error", "live"}

Sentinel2_get_imagery_metadata(sess, cred, b, start_date, end_date) ==
    IF ~validate_bounds(b)
    THEN {ImageryOutcome("ValueError", "none", "none", sess)}
    ELSE
      \* _get_api_client: SentinelAPI(...) is built once, and building it may raise
      LET handles == IF ~sess /\ cred THEN {TRUE, FALSE} ELSE {sess}
      IN  UNION {
            IF ~h
            THEN _get_simulated_metadata("sentinel2",
                     IF cred THEN "api_init_failed" ELSE "no_credentials",
                     h, start_date, end_date)
            ELSE UNION {
                   \* api_client.query raises on every failure of the catalog, and
                   \* the except branch falls back to the simulated calendar
                   IF a # "live"
                   THEN _get_simulated_metadata("sentinel2", a, h, start_date, end_date)
                   ELSE { ImageryOutcome(l, "live", "live", h) : l \in {"empty", "nonempty"} }
                   : a \in CatalogAnswers }
            : h \in handles }

\* what the login request of _authenticate can end in
LoginAnswers == {"authenticated", "auth_rejected", "auth_raised"}

_query_usgs_api(a, sess, start_date, end_date) ==
    CASE a = "query_raised" ->
           \* re-raised by _query_usgs_api, caught by get_imagery_metadata
           _get_simulated_metadata("landsat", a, sess, start_date, end_date)
      [] a \in {"http_error", "api_error"} ->
           \* logged; imagery_list stays empty and sorted(imagery_list) is returned
           { ImageryOutcome("empty", "live_error", a, sess) }
      [] a = "live" ->
           { ImageryOutcome(l, "live", "live", sess) : l \in {"empty", "nonempty"} }

Landsat_get_imagery_metadata(sess, cred, b, start_date, end_date) ==
    IF ~validate_bounds(b)
    THEN {ImageryOutcome("ValueError", "none", "none", sess)}
    ELSE IF cred /\ ~sess
    THEN UNION {
           IF l # "authenticated"
           THEN _get_simulated_metadata("landsat", l, FALSE, start_date, end_date)
           ELSE UNION { _query_usgs_api(a, TRUE, start_date, end_date) : a \in CatalogAnswers }
           : l \in LoginAnswers }
    ELSE IF ~sess
    THEN _get_simulated_metadata("landsat", "no_credentials", sess, start_date, end_date)
    ELSE UNION { _query_usgs_api(a, sess, start_date, end_date) : a \in CatalogAnswers }

get_imagery_metadata(c, sess, cred, b, start_date, end_date) ==
    CASE c = "mock" -> Mock_get_imagery_metadata(sess, b, start_date, end_date)
      [] c = "sentinel2" -> Sentinel2_get_imagery_metadata(sess, cred, b, start_date, end_date)
      [] c = "landsat" -> Landsat_get_imagery_metadata(sess, cred, b, start_date, end_date)

-----------------------------------------------------------------------------
(* get_vegetation_index and detect_land_cover_change                        *)
(* An outcome is [res, sess]: res is "ok" or the exception raised.          *)

OpOutcome(res, sess) == [res |-> res, sess |-> sess]

\* Mock: the imagery list is only attached to the result ("imagery_used")
Mock_get_vegetation_index(sess, b, start_date, end_date) ==
    IF ~validate_bounds(b)
    THEN {OpOutcome("ValueError", sess)}
    ELSE { OpOutcome(IF IsList(i.res) THEN "ok" ELSE i.res, i.sess) :
             i \in Mock_get_imagery_metadata(sess, b, start_date, end_date) }

\* Sentinel-2 and Landsat: an empty imagery list raises ValueError("No ... imagery
\* available for specified period"); when no scene passes the cloud filter all
\* scenes are used
Live_get_vegetation_index(c, sess, cred, b, start_date, end_date) ==
    IF ~validate_bounds(b)
    THEN {OpOutcome("ValueError", sess)}
    ELSE { OpOutcome(CASE i.res = "nonempty" -> "ok"
                       [] i.res = "empty" -> "ValueError"
                       [] OTHER -> i.res,
                     i.sess) :
             i \in get_imagery_metadata(c, sess, cred, b, start_date, end_date) }

get_vegetation_index(c, sess, cred, b, start_date, end_date) ==
    IF c = "mock"
    THEN Mock_get_vegetation_index(sess, b, start_date, end_date)
    ELSE Live_get_vegetation_index(c, sess, cred, b, start_date, end_date)

\* one awaited call inside detect_land_cover_change: <<operation, date>>, the
\* window being (date, date)
AwaitedCall(c, sess, cred, b, awaited) ==
    IF awaited[1] = "imagery"
    THEN { OpOutcome(IF IsList(i.res) THEN "ok" ELSE i.res, i.sess) :
             i \in get_imagery_metadata(c, sess, cred, b, awaited[2], awaited[2]) }
    ELSE get_vegetation_index(c, sess, cred, b, awaited[2], awaited[2])

\* the awaited calls in program order: the first that raises ends the operation;
\* sessions holds the handles the client may hold when all calls so far returned
RECURSIVE AwaitAll(_, _, _, _, _)
AwaitAll(c, sessions, cred, b, awaits) ==
    IF awaits = <<>> THEN {OpOutcome("ok", s) : s \in sessions}
    ELSE LET outs == UNION {AwaitedCall(c, s, cred, b, Head(awaits)) : s \in sessions}
             returned == {o.sess : o \in {x \in outs : x.res = "ok"}}
         IN  {o \in outs : o.res # "ok"} \cup AwaitAll(c, returned, cred, b, Tail(awaits))

\* Mock awaits the NDVI before and after; Sentinel-2 first the imagery of both
\* dates; Landsat also the NBR before and after
ChangeAwaits(c, before_date, after_date) ==
    CASE c = "mock" ->
           << <<"index", before_date>>, <<"index", after_date>> >>
      [] c = "sentinel2" ->
           << <<"imagery", before_date>>, <<"imagery", after_date>>,
              <<"index", before_date>>, <<"index", after_date>> >>
      [] c = "landsat" ->
           << <<"imagery", before_date>>, <<"imagery", after_date>>,
              <<"index", before_date>>, <<"index", after_date>>,
              <<"index", before_date>>, <<"index", after_date>> >>

\* the result dict holds round(change_area / area_hectares * 100, 2)
detect_land_cover_change(c, sess, cred, b, before_date, after_date) ==
    IF ~validate_bounds(b)
    THEN {OpOutcome("ValueError", sess)}
    ELSE { IF o.res = "ok" /\ calculate_area_hectares(b) = 0
           THEN OpOutcome("ZeroDivisionError", o.sess)
           ELSE o
           : o \in AwaitAll(c, {sess}, cred, b, ChangeAwaits(c, before_date, after_date)) }

-----------------------------------------------------------------------------
(* SatelliteDataService: selection of the clients *)

\* names a caller may put in client_preference
PrefNames == clients \cup {"nonexistent"}

\* an absent client_preference (no list of names equals it)
NoPreference == <<"None">>

\* client_preference: absent, or a list of at most MaxPrefLen names
PrefSet == {NoPreference} \cup UNION { [1..n -> PrefNames] : n \in 0..MaxPrefLen }

\* variant of _select_clients that appends the mock client to a preference
\* that does not end with it
_select_clients_mock_appended(client_preference) ==
    LET available_preferred ==
            IF client_preference = NoPreference THEN <<>>
            ELSE SelectSeq(client_preference, LAMBDA c : c \in clients)
    IN  IF available_preferred = <<>> THEN <<"sentinel2", "mock">>
        ELSE IF available_preferred[Len(available_preferred)] = "mock"
        THEN available_preferred
        ELSE Append(available_preferred, "mock")

_select_clients(client_preference) ==
    LET available_preferred ==
            IF client_preference = NoPreference THEN <<>>
            ELSE SelectSeq(client_preference, LAMBDA c : c \in clients)
    IN  IF client_preference # NoPreference /\ client_preference # <<>>
           /\ available_preferred # <<>>
        THEN available_preferred
        ELSE IF "sentinel2" \in clients THEN <<"sentinel2", "mock">>
        ELSE IF "landsat" \in clients THEN <<"landsat", "mock">>
        ELSE <<"mock">>

-----------------------------------------------------------------------------
(* SatelliteDataService: one client's analysis *)

\* timedelta(days=30) of the baseline and the current window
WindowDays == 30

\* the gathered tasks, in the order of the tasks list
Tasks == 1..4
TaskName(i) ==
    CASE i = 1 -> "baseline_vegetation"
      [] i = 2 -> "current_vegetation"
      [] i = 3 -> "change_analysis"
      [] i = 4 -> "imagery_metadata"

\* start_date + timedelta(days=30) or analysis_date - timedelta(days=30) raises
WindowsRaise(start_date, analysis_date) ==
    DateOverflows(start_date, WindowDays) \/ DateOverflows(analysis_date, -WindowDays)

\* variant of baseline_period without the min(..., analysis_date) of line 173
baseline_period_unclipped(start_date, analysis_date) ==
    <<start_date, start_date + WindowDays>>

baseline_period(start_date, analysis_date) ==
    <<start_date, Min(start_date + WindowDays, analysis_date)>>

current_period(start_date, analysis_date) ==
    <<Max(analysis_date - WindowDays, start_date), analysis_date>>

\* the outcomes of task i of client c: [res, sess], res the exception's name, or
\* "value" for a returned dict and "empty" / "nonempty" for a returned list
TaskOutcomes(i, c, sess, cred, b, start_date, analysis_date) ==
    LET base == baseline_period(start_date, analysis_date)
        cur == current_period(start_date, analysis_date)
        Value(o) == OpOutcome(IF o.res = "ok" THEN "value" ELSE o.res, o.sess)
    IN  CASE i = 1 -> { Value(o) : o \in get_vegetation_index(c, sess, cred, b, base[1], base[2]) }
          [] i = 2 -> { Value(o) : o \in get_vegetation_index(c, sess, cred, b, cur[1], cur[2]) }
          [] i = 3 -> { Value(o) :
                          o \in detect_land_cover_change(c, sess, cred, b, start_date, analysis_date) }
          [] i = 4 -> { OpOutcome(o.res, o.sess) :
                          o \in get_imagery_metadata(c, sess, cred, b, start_date, analysis_date) }

Returned(res) == res \in {"value", "empty", "nonempty"}
IsException(res) == ~Returned(res)

Null == "null"

\* variant of GatheredResult in which one raised task fails the whole client
GatheredResult_all_or_nothing(c, done) ==
    [ key |-> c,
      client_name |-> client_name(c),
      success |-> \A i \in Tasks : ~IsException(done[i]),
      fields |-> [i \in Tasks |-> IF \E j \in Tasks : IsException(done[j])
                                  THEN Null ELSE done[i]],
      errors |-> {TaskName(i) : i \in {j \in Tasks : IsException(done[j])}} ]

\* the dict returned after the gather: every exception becomes None and a message
GatheredResult(c, done) ==
    [ key |-> c,
      client_name |-> client_name(c),
      success |-> TRUE,
      fields |-> [i \in Tasks |-> IF IsException(done[i]) THEN Null ELSE done[i]],
      errors |-> {TaskName(i) : i \in {j \in Tasks : IsException(done[j])}} ]

\* the dict returned by the except branch: no field of the analysis is set
FailedResult(c) ==
    [ key |-> c,
      client_name |-> client_name(c),
      success |-> FALSE,
      fields |-> [i \in Tasks |-> Null],
      errors |-> {} ]

\* results[client_name] = client_result: a dict keeps the position of a key it has
DictSet(items, r) ==
    IF \E k \in 1..Len(items) : items[k].key = r.key
    THEN [k \in 1..Len(items) |-> IF items[k].key = r.key THEN r ELSE items[k]]
    ELSE Append(items, r)

\* list(results.keys())
DictKeys(items) == [k \in 1..Len(items) |-> items[k].key]

\* variant of BreaksLoop that does not look at the result's success
BreaksLoop_ignores_success(client, selected, client_result) ==
    client = selected[1]

\* the break of the for loop
BreaksLoop(client, selected, client_result) ==
    client = selected[1] /\ client_result.success

-----------------------------------------------------------------------------
(* SatelliteDataService: synthesis and the returned dict *)

\* number of non-null components among baseline, current and change analysis
Completeness(r) == Cardinality({i \in 1..3 : r.fields[i] # Null})

\* the scan for the best result: the first successful one of greatest completeness
RECURSIVE BestResult(_, _, _)
BestResult(items, k, best) ==
    IF k > Len(items) THEN best
    ELSE IF items[k].success /\ (best = 0 \/ Completeness(items[k]) > Completeness(items[best]))
    THEN BestResult(items, k + 1, k)
    ELSE BestResult(items, k + 1, best)

NoAnalysis ==
    [ error |-> "", data_source |-> "", total_area_hectares |-> 0,
      monitoring_available |-> FALSE, change_detection_available |-> FALSE,
      assessment_available |-> FALSE ]

\* vegetation_monitoring.monitoring_available: `baseline and current`, or `current`
_extract_vegetation_metrics(result) ==
    \/ (result.fields[1] # Null /\ result.fields[2] # Null)
    \/ result.fields[2] # Null

\* change_detection.change_detection_available
_extract_change_metrics(result) == result.fields[3] # Null

\* carbon_impact_assessment.assessment_available
_assess_carbon_impact(result) == result.fields[2] # Null

_synthesize_project_analysis(client_results, b) ==
    LET best == BestResult(client_results, 1, 0)
    IN  IF best = 0
        THEN [NoAnalysis EXCEPT !.error = "No successful satellite analysis available"]
        ELSE [NoAnalysis EXCEPT
                !.data_source = client_results[best].client_name,
                !.total_area_hectares = calculate_area_hectares(b),
                !.monitoring_available = _extract_vegetation_metrics(client_results[best]),
                !.change_detection_available = _extract_change_metrics(client_results[best]),
                !.assessment_available = _assess_carbon_impact(client_results[best])]

_assess_analysis_quality(client_results) ==
    LET successful_analyses ==
            Cardinality({k \in 1..Len(client_results) : client_results[k].success})
        total_analyses == Len(client_results)
    IN  IF successful_analyses = 0 THEN "poor"
        ELSE IF 10 * successful_analyses >= 8 * total_analyses THEN "excellent"
        ELSE IF 10 * successful_analyses >= 6 * total_analyses THEN "good"
        ELSE "fair"

NoReturn ==
    [ kind |-> "none", success |-> FALSE, error |-> "", monitoring_duration_days |-> 0,
      satellite_analysis |-> NoAnalysis, data_sources |-> <<>>, analysis_quality |-> "" ]

\* the dict of lines 118-133
ReturnedAnalysis(client_results, b, project_start_date, analysis_date) ==
    [ kind |-> "returned", success |-> TRUE, error |-> "",
      monitoring_duration_days |-> analysis_date - project_start_date,
      satellite_analysis |-> _synthesize_project_analysis(client_results, b),
      data_sources |-> DictKeys(client_results),
      analysis_quality |-> _assess_analysis_quality(client_results) ]

\* raise ValueError("Project start date must be before analysis date")
RaisedDateOrder == [NoReturn EXCEPT !.kind = "raised", !.error = "ValueError"]

-----------------------------------------------------------------------------
(* The analysis request as a process                                        *)
(* get_project_satellite_analysis is one coroutine; it is suspended only in  *)
(* the gather of the four tasks of a client, which complete in any order.    *)

NoRequest ==
    [ project_bounds |-> <<0, 0, 0, 0>>, project_start_date |-> NoDate,
      analysis_date |-> NoDate, client_preference |-> NoPreference ]

IdleTasks == [i \in Tasks |-> "idle"]

NoCall == [op |-> "none", client |-> "none", bounds |-> <<0, 0, 0, 0>>,
           start_date |-> NoDate, end_date |-> NoDate]
NoOutcome == ImageryOutcome("none", "none", "none", FALSE)

\* the configurations of SatelliteDataService(config): credentials for the two
\* live clients, or for neither (a client reads no credentials but its own)
CredSet == {[c \in clients |-> c \in LiveClients /\ given] : given \in BOOLEAN}

Init ==
    /\ pc = "idle"
    /\ req = NoRequest
    /\ clients_to_use = <<>>
    /\ idx = 0
    /\ sub = IdleTasks
    /\ results = <<>>
    /\ ret = NoReturn
    /\ creds \in CredSet
    /\ session = [c \in clients |-> FALSE]
    /\ call = NoCall
    /\ outcome = NoOutcome
    /\ logins = 0
    /\ default_client = "mock"

\* variant of DateOrderInvalid that accepts equal dates
DateOrderInvalid_strict(project_start_date, analysis_date) ==
    project_start_date > analysis_date

\* line 91: the condition under which the request is refused
DateOrderInvalid(project_start_date, analysis_date) ==
    project_start_date >= analysis_date

\* lines 88-98: the default of analysis_date, the date-order check, the selection
get_project_satellite_analysis(project_bounds, project_start_date, analysis_date, client_preference) ==
    LET resolved == IF analysis_date = NoDate THEN Today ELSE analysis_date
    IN  /\ pc = "idle"
        /\ req' = [ project_bounds |-> project_bounds,
                    project_start_date |-> project_start_date,
                    analysis_date |-> resolved,
                    client_preference |-> client_preference ]
        /\ IF DateOrderInvalid(project_start_date, resolved)
           THEN /\ pc' = "raised"
                /\ ret' = RaisedDateOrder
                /\ UNCHANGED <<clients_to_use, idx, results>>
           ELSE /\ pc' = "loop"
                /\ clients_to_use' = _select_clients(client_preference)
                /\ idx' = 1
                /\ results' = <<>>
                /\ UNCHANGED ret
        /\ UNCHANGED <<sub, creds, logins, default_client, session, call, outcome>>

\* after an iteration that did not break: the next client, or the synthesis
Advance ==
    IF idx + 1 > Len(clients_to_use)
    THEN pc' = "synthesize" /\ UNCHANGED idx
    ELSE pc' = "loop" /\ idx' = idx + 1

\* variant of ClientFails without the except branch of lines 215-221 (and
\* without the one of lines 135-145): the OverflowError leaves the request
ClientFails_uncaught ==
    /\ pc = "loop"
    /\ WindowsRaise(req.project_start_date, req.analysis_date)
    /\ pc' = "raised"
    /\ ret' = [NoReturn EXCEPT !.kind = "raised", !.error = "OverflowError"]
    /\ UNCHANGED <<req, clients_to_use, idx, sub, results, creds, logins, default_client, session, call, outcome>>

\* _analyze_project_with_client, lines 171-176 and 215-221: a window computation
\* raises before any task exists, and the except branch returns success: False
\* (lines 104-112: the dict is stored and the break condition evaluated)
ClientFails ==
    /\ pc = "loop"
    /\ WindowsRaise(req.project_start_date, req.analysis_date)
    /\ LET c == clients_to_use[idx]
           client_result == FailedResult(c)
       IN  /\ results' = DictSet(results, client_result)
           /\ IF BreaksLoop(c, clients_to_use, client_result)
              THEN pc' = "synthesize" /\ UNCHANGED idx
              ELSE Advance
    /\ UNCHANGED <<req, clients_to_use, sub, ret, creds, logins, default_client, session, call, outcome>>

\* _analyze_project_with_client, lines 171-188: the four tasks are created and
\* the coroutine waits in asyncio.gather(*tasks, return_exceptions=True)
FanOut ==
    /\ pc = "loop"
    /\ ~WindowsRaise(req.project_start_date, req.analysis_date)
    /\ pc' = "gather"
    /\ sub' = [i \in Tasks |-> "pending"]
    /\ UNCHANGED <<req, clients_to_use, idx, results, ret, creds, logins, default_client, session, call, outcome>>

\* one of the gathered tasks runs to its end, returning or raising
TaskDone(i) ==
    /\ pc = "gather"
    /\ sub[i] = "pending"
    /\ LET c == clients_to_use[idx]
       IN  \E o \in TaskOutcomes(i, c, session[c], creds[c], req.project_bounds,
                                 req.project_start_date, req.analysis_date) :
              /\ sub' = [sub EXCEPT ![i] = o.res]
              /\ session' = [session EXCEPT ![c] = o.sess]
    /\ UNCHANGED <<pc, req, clients_to_use, idx, results, ret, creds, logins, default_client, call, outcome>>

\* variant of Join in which the wait returns as soon as one task has finished
\* (asyncio.wait with FIRST_COMPLETED in place of asyncio.gather)
Join_first_completed ==
    /\ pc = "gather"
    /\ \E i \in Tasks : sub[i] # "pending"
    /\ LET c == clients_to_use[idx]
           client_result == GatheredResult(c, sub)
       IN  /\ results' = DictSet(results, client_result)
           /\ IF BreaksLoop(c, clients_to_use, client_result)
              THEN pc' = "synthesize" /\ UNCHANGED idx
              ELSE Advance
    /\ sub' = IdleTasks
    /\ UNCHANGED <<req, clients_to_use, ret, creds, logins, default_client, session, call, outcome>>

\* lines 186-213 and 109-113: the gather returns, the client's dict is stored and
\* the loop breaks or goes on
Join ==
    /\ pc = "gather"
    /\ \A i \in Tasks : sub[i] # "pending"
    /\ LET c == clients_to_use[idx]
           client_result == GatheredResult(c, sub)
       IN  /\ results' = DictSet(results, client_result)
           /\ IF BreaksLoop(c, clients_to_use, client_result)
              THEN pc' = "synthesize" /\ UNCHANGED idx
              ELSE Advance
    /\ sub' = IdleTasks
    /\ UNCHANGED <<req, clients_to_use, ret, creds, logins, default_client, session, call, outcome>>

\* lines 115-133: the synthesis and the returned dict
Synthesize ==
    /\ pc = "synthesize"
    /\ ret' = ReturnedAnalysis(results, req.project_bounds, req.project_start_date,
                                req.analysis_date)
    /\ pc' = "returned"
    /\ UNCHANGED <<req, clients_to_use, idx, sub, results, creds, logins, default_client, session, call, outcome>>

Next ==
    \/ /\ pc = "idle"
       /\ \E b \in BoundsSet, s \in DateSet, a \in DateSet \cup {NoDate}, p \in PrefSet :
             /\ (IF a = NoDate THEN Today ELSE a) - s <= MaxPeriodDays
             /\ get_project_satellite_analysis(b, s, a, p)
    \/ ClientFails
    \/ FanOut
    \/ \E i \in Tasks : TaskDone(i)
    \/ Join
    \/ Synthesize

Spec == Init /\ [][Next]_vars

-----------------------------------------------------------------------------
(* Direct calls of one client's operations, as the narrow entry points of the
   service and the tests make them *)

DirectCall(op, c, b, start_date, end_date) ==
    [op |-> op, client |-> c, bounds |-> b, start_date |-> start_date,
     end_date |-> end_date]

\* await client.get_imagery_metadata(bounds, start_date, end_date)
Call_get_imagery_metadata(c, b, start_date, end_date) ==
    /\ pc = "idle"
    /\ \E o \in get_imagery_metadata(c, session[c], creds[c], b, start_date, end_date) :
          /\ outcome' = o
          /\ session' = [session EXCEPT ![c] = o.sess]
    /\ call' = DirectCall("get_imagery_metadata", c, b, start_date, end_date)
    /\ UNCHANGED <<pc, req, clients_to_use, idx, sub, results, ret, creds, logins, default_client>>

\* await client.get_vegetation_index(bounds, start_date, end_date)
Call_get_vegetation_index(c, b, start_date, end_date) ==
    /\ pc = "idle"
    /\ \E o \in get_vegetation_index(c, session[c], creds[c], b, start_date, end_date) :
          /\ outcome' = ImageryOutcome(IF o.res = "ok" THEN "value" ELSE o.res,
                                       "none", "none", o.sess)
          /\ session' = [session EXCEPT ![c] = o.sess]
    /\ call' = DirectCall("get_vegetation_index", c, b, start_date, end_date)
    /\ UNCHANGED <<pc, req, clients_to_use, idx, sub, results, ret, creds, logins, default_client>>

\* await client.detect_land_cover_change(bounds, before_date, after_date)
Call_detect_land_cover_change(c, b, before_date, after_date) ==
    /\ pc = "idle"
    /\ \E o \in detect_land_cover_change(c, session[c], creds[c], b, before_date,
                                         after_date) :
          /\ outcome' = ImageryOutcome(IF o.res = "ok" THEN "value" ELSE o.res,
                                       "none", "none", o.sess)
          /\ session' = [session EXCEPT ![c] = o.sess]
    /\ call' = DirectCall("detect_land_cover_change", c, b, before_date, after_date)
    /\ UNCHANGED <<pc, req, clients_to_use, idx, sub, results, ret, creds, logins, default_client>>

\* date(2024, 1, 31) - date(2024, 1, 1): the one-month window of the tests
MonthDays == 30

\* the periods the direct calls are made for: a usual one, a one-month window,
\* one whose dates are reversed, and two in the last weeks of the calendar
PeriodSet ==
    { <<Today - 45, Today - 10>>, <<Today - 10 - MonthDays, Today - 10>>,
      <<Today - 10, Today - 45>>,
      <<DateMax - 40, DateMax - 12>>, <<DateMax - 12, DateMax>> }

NextClient ==
    \/ \E c \in clients, b \in BoundsSet, p \in PeriodSet :
          Call_get_imagery_metadata(c, b, p[1], p[2])
    \/ \E c \in clients, b \in BoundsSet, p \in PeriodSet :
          Call_get_vegetation_index(c, b, p[1], p[2])
    \/ \E c \in clients, b \in BoundsSet, p \in PeriodSet :
          Call_detect_land_cover_change(c, b, p[1], p[2])

SpecClient == Init /\ [][NextClient]_vars

-----------------------------------------------------------------------------
(* SatelliteDataService: the default client and the narrow entry points *)

\* client_name = None, the default of the entry points' argument
NoName == "None"

ServiceCall(op, b, name) == [op |-> op, bounds |-> b, client_name |-> name]

\* variant of set_default_client without the membership check of lines 64-65
set_default_client_unchecked(name) ==
    /\ pc = "idle"
    /\ default_client' = name
    /\ outcome' = [res |-> "value"]
    /\ call' = ServiceCall("set_default_client", <<0, 0, 0, 0>>, name)
    /\ UNCHANGED <<pc, req, clients_to_use, idx, sub, results, ret, creds, logins, session>>

\* SatelliteDataService.set_default_client
set_default_client(name) ==
    /\ pc = "idle"
    /\ IF name \notin clients
       THEN /\ outcome' = [res |-> "ValueError"]
            /\ UNCHANGED default_client
       ELSE /\ default_client' = name
            /\ outcome' = [res |-> "value"]
    /\ call' = ServiceCall("set_default_client", <<0, 0, 0, 0>>, name)
    /\ UNCHANGED <<pc, req, clients_to_use, idx, sub, results, ret, creds, logins, session>>

\* self.clients.get(client_name, self.clients[self.default_client]): the key of
\* the client, or "KeyError" when the default's key is not registered
ResolveClient(name) ==
    IF default_client \notin clients THEN "KeyError"
    ELSE IF name \in clients THEN name
    ELSE default_client

\* the dict an entry point returns for the client's outcome res
EntryPointReturn(c, res) ==
    [res |-> "value", success |-> Returned(res), client_used |-> client_name(c)]

\* SatelliteDataService.get_satellite_imagery_for_project
get_satellite_imagery_for_project(project_bounds, start_date, end_date, name) ==
    LET c == ResolveClient(name)
    IN  /\ pc = "idle"
        /\ IF c = "KeyError"
           THEN outcome' = [res |-> "KeyError"] /\ UNCHANGED session
           ELSE \E o \in get_imagery_metadata(c, session[c], creds[c], project_bounds,
                                              start_date, end_date) :
                   /\ outcome' = EntryPointReturn(c, o.res)
                   /\ session' = [session EXCEPT ![c] = o.sess]
        /\ call' = ServiceCall("get_satellite_imagery_for_project", project_bounds, name)
        /\ UNCHANGED <<pc, req, clients_to_use, idx, sub, results, ret, creds, logins, default_client>>

\* SatelliteDataService.calculate_vegetation_index_for_project
calculate_vegetation_index_for_project(project_bounds, date_range, name) ==
    LET c == ResolveClient(name)
    IN  /\ pc = "idle"
        /\ IF c = "KeyError"
           THEN outcome' = [res |-> "KeyError"] /\ UNCHANGED session
           ELSE \E o \in get_vegetation_index(c, session[c], creds[c], project_bounds,
                                               date_range[1], date_range[2]) :
                   /\ outcome' = EntryPointReturn(c, IF o.res = "ok" THEN "value" ELSE o.res)
                   /\ session' = [session EXCEPT ![c] = o.sess]
        /\ call' = ServiceCall("calculate_vegetation_index_for_project", project_bounds, name)
        /\ UNCHANGED <<pc, req, clients_to_use, idx, sub, results, ret, creds, logins, default_client>>

\* the names the service is called with: registered, unregistered and absent
ServiceNames == PrefNames \cup {NoName}

\* the project areas of the entry points' calls: a valid one and one whose
\* longitudes coincide
ServiceBounds == { <<-740, 46, -739, 47>>, <<10, 10, 10, 20>> }

NextService ==
    \/ \E name \in PrefNames : set_default_client(name)
    \/ \E b \in ServiceBounds, name \in ServiceNames :
          get_satellite_imagery_for_project(b, Today - 45, Today - 10, name)
    \/ \E b \in ServiceBounds, name \in ServiceNames :
          calculate_vegetation_index_for_project(b, <<Today - 45, Today - 10>>, name)

SpecService == Init /\ [][NextService]_vars

-----------------------------------------------------------------------------
(* The imagery lists, scene by scene.  A scene is kept as its acquisition date
   (an ordinal), its "date" entry (date.isoformat(), a string of fixed width
   YYYY-MM-DD, kept as the number YYYYMMDD that orders the same way) and its
   cloud cover in percent. *)

\* datetime._ord2ymd: the year, month and day of an ordinal
IsLeap(year) == year % 4 = 0 /\ (year % 100 # 0 \/ year % 400 = 0)

DaysBeforeMonth(year, month) ==
    LET common == <<0, 31, 59, 90, 120, 151, 181, 212, 243, 273, 304, 334>>
    IN  common[month] + (IF month > 2 /\ IsLeap(year) THEN 1 ELSE 0)

_ord2ymd(ordinal) ==
    LET n0 == ordinal - 1
        n400 == n0 \div 146097
        r400 == n0 % 146097
        n100 == r400 \div 36524
        r100 == r400 % 36524
        n4 == r100 \div 1461
        r4 == r100 % 1461
        n1 == r4 \div 365
        n == r4 % 365
        year == n400 * 400 + n100 * 100 + n4 * 4 + n1 + 1
    IN  IF n1 = 4 \/ n100 = 4 THEN <<year - 1, 12, 31>>
        ELSE LET month == CHOOSE m \in 1..12 :
                              /\ DaysBeforeMonth(year, m) <= n
                              /\ (m = 12 \/ DaysBeforeMonth(year, m + 1) > n)
             IN  <<year, month, n - DaysBeforeMonth(year, month) + 1>>

\* d.isoformat(), as the number that orders like the string
isoformat(d) ==
    LET ymd == _ord2ymd(d)
    IN  ymd[1] * 10000 + ymd[2] * 100 + ymd[3]

Scene(acquired, cloud_cover) ==
    [ acquired |-> acquired, date |-> isoformat(acquired), cloud_cover |-> cloud_cover ]

\* random.uniform(0, 30), random.uniform(0, 25), random.uniform(0, 40): a value
\* below and, where there is one, a value above the client's default filter
CloudDraws(c) ==
    CASE c = "mock" -> {15}
      [] c = "sentinel2" -> {5, 22}
      [] c = "landsat" -> {10, 35}

\* kwargs.get('max_cloud_cover', 20) and kwargs.get('max_cloud_cover', 30)
DefaultMaxCloud(c) == IF c = "sentinel2" THEN 20 ELSE 30

\* the loop of the three generators, from current_date on: every list it can
\* return (the dates are far from date.max, no step leaves the calendar)
RECURSIVE SimulatedLists(_, _, _, _)
SimulatedLists(c, current_date, end_date, imagery_list) ==
    IF ~(current_date <= end_date) THEN {imagery_list}
    ELSE UNION { SimulatedLists(c, current_date + step, end_date, l) :
                   step \in RevisitSteps(c),
                   l \in {imagery_list}
                         \cup {Append(imagery_list, Scene(current_date, k)) :
                                 k \in CloudDraws(c)} }

\* variant of SortedByDate that puts a later date first
RECURSIVE SortedByDate_descending(_)
SortedByDate_descending(imagery_list) ==
    IF imagery_list = <<>> THEN <<>>
    ELSE LET rest == SortedByDate_descending(Tail(imagery_list))
             x == Head(imagery_list)
             before == SelectSeq(rest, LAMBDA y : y.date > x.date)
             after == SelectSeq(rest, LAMBDA y : ~(y.date > x.date))
         IN  before \o <<x>> \o after

\* sorted(imagery_list, key=lambda x: x['date']): a stable sort on the string
RECURSIVE SortedByDate(_)
SortedByDate(imagery_list) ==
    IF imagery_list = <<>> THEN <<>>
    ELSE LET rest == SortedByDate(Tail(imagery_list))
             x == Head(imagery_list)
             before == SelectSeq(rest, LAMBDA y : y.date < x.date)
             after == SelectSeq(rest, LAMBDA y : ~(y.date < x.date))
         IN  before \o <<x>> \o after

\* most products or scenes in one answer of a catalog
MaxScenes == 3

\* what a catalog may hold: the last and the first day of a year, a day ten
\* months later, each clear or cloudy
CatalogScenes ==
    { Scene(d, k) : d \in {Today - 306, Today - 305, Today - 10}, k \in {5, 60} }

\* products.items() / result['data']['results']: in whatever order the catalog answers
CatalogAnswersOf(c) ==
    IF c \in LiveClients
    THEN UNION { [1..n -> CatalogScenes] : n \in 0..MaxScenes }
    ELSE {}

\* the lists get_imagery_metadata can return on each path, with what the
\* catalog answered (<<>> on the synthetic path)
ImageryLists(c, start_date, end_date) ==
    { [src |-> "synthetic", catalog |-> <<>>, imagery |-> l] :
        l \in SimulatedLists(c, start_date, end_date, <<>>) }
    \cup { [src |-> "live", catalog |-> a, imagery |-> SortedByDate(a)] :
             a \in CatalogAnswersOf(c) }

ScenesCall(op, c, start_date, end_date) ==
    [ op |-> op, client |-> c, start_date |-> start_date, end_date |-> end_date ]

\* get_imagery_metadata for valid bounds, with the list it returns
Scenes_get_imagery_metadata(c, start_date, end_date) ==
    /\ pc = "idle"
    /\ call = NoCall
    /\ call' = ScenesCall("imagery_list", c, start_date, end_date)
    /\ \E found \in ImageryLists(c, start_date, end_date) :
          outcome' = [ res |-> "value", src |-> found.src, catalog |-> found.catalog,
                       imagery |-> found.imagery ]
    /\ UNCHANGED <<pc, req, clients_to_use, idx, sub, results, ret, creds, logins, default_client, session>>

\* "high" if len(imagery) >= 3 else "medium" (Sentinel-2), >= 2 (Landsat); the
\* mock client's interpretation has no confidence_level
confidence_level(c, imagery) ==
    CASE c = "mock" -> "none"
      [] c = "sentinel2" -> IF Len(imagery) >= 3 THEN "high" ELSE "medium"
      [] c = "landsat" -> IF Len(imagery) >= 2 THEN "high" ELSE "medium"

IndexOverScenes(res, imagery, imagery_used, level) ==
    [ res |-> res, imagery |-> imagery, imagery_used |-> imagery_used,
      confidence_level |-> level ]

\* get_vegetation_index for valid bounds, from the imagery query to the
\* result's imagery_used and interpretation.confidence_level
Scenes_get_vegetation_index(c, start_date, end_date) ==
    /\ pc = "idle"
    /\ call = NoCall
    /\ call' = ScenesCall("index_over_scenes", c, start_date, end_date)
    /\ \E found \in ImageryLists(c, start_date, end_date) :
          LET imagery == found.imagery
              clear_imagery == SelectSeq(imagery,
                                   LAMBDA img : img.cloud_cover <= DefaultMaxCloud(c))
              used == IF clear_imagery = <<>> THEN imagery ELSE clear_imagery
          IN  outcome' =
                IF c = "mock"
                THEN IndexOverScenes("value", imagery, imagery, confidence_level(c, imagery))
                ELSE IF imagery = <<>>
                THEN IndexOverScenes("ValueError", imagery, <<>>, "none")
                ELSE IndexOverScenes("value", imagery, used, confidence_level(c, used))
    /\ UNCHANGED <<pc, req, clients_to_use, idx, sub, results, ret, creds, logins, default_client, session>>

\* the windows asked for: ten days, the same reversed, and a single day
ScenePeriods ==
    { <<Today - 20, Today - 10>>, <<Today - 10, Today - 20>>, <<Today - 10, Today - 10>> }

NextScenes ==
    \/ \E c \in clients, p \in ScenePeriods : Scenes_get_imagery_metadata(c, p[1], p[2])
    \/ \E c \in clients, p \in ScenePeriods : Scenes_get_vegetation_index(c, p[1], p[2])

SpecScenes == Init /\ [][NextScenes]_vars

-----------------------------------------------------------------------------
(* The fan-out of the Landsat client, step by step.  The Landsat client is the
   one whose operations suspend: in the login request of _authenticate and in
   the catalog request of _query_usgs_api (both aiohttp).  A gathered task runs
   from one suspension to the next without interruption; sub[i] is then the
   record of where task i is suspended, or of how it ended. *)

\* get_imagery_metadata calls a task makes one after the other: one for an
\* index or for the imagery listing; for the change detection two of its own
\* and one in each of its four index calculations (NDVI and NBR, both dates)
ImageryCalls(i) == IF i = 3 THEN 6 ELSE 1

\* the call raises ValueError when its list is empty: the call of an index
\* calculation ("No Landsat imagery available for specified period")
NeedsImagery(i, call_no) == i \in {1, 2} \/ (i = 3 /\ call_no >= 3)

TaskAt(at, call_no, res) == [at |-> at, call_no |-> call_no, res |-> res]

\* get_imagery_metadata up to its first suspension, lines 96-109: what the
\* task does when it enters call call_no with the token as it is now
EnterCall(token, cred, call_no) ==
    IF cred /\ ~token THEN TaskAt("login", call_no, "none")
    ELSE IF ~token THEN TaskAt("simulated", call_no, "none")
    ELSE TaskAt("query", call_no, "none")

\* the task goes on after a call that returned list l: it ends, raising or
\* returning, or enters its next call
RECURSIVE AfterCall(_, _, _, _, _)
AfterCall(i, call_no, l, token, cred) ==
    IF l = "empty" /\ NeedsImagery(i, call_no) THEN {TaskAt("done", call_no, "ValueError")}
    ELSE IF call_no = ImageryCalls(i)
    THEN {TaskAt("done", call_no, IF i = 4 THEN l ELSE "value")}
    ELSE LET next == EnterCall(token, cred, call_no + 1)
         IN  IF next.at # "simulated" THEN {next}
             ELSE UNION { AfterCall(i, call_no + 1, m, token, cred) :
                            m \in {"empty", "nonempty"} }

\* a task from its creation to its first suspension or, when nothing
\* suspends it, to its end
StartTask(i, token, cred) ==
    LET first == EnterCall(token, cred, 1)
    IN  IF first.at # "simulated" THEN {first}
        ELSE UNION { AfterCall(i, 1, m, token, cred) : m \in {"empty", "nonempty"} }

LoginsPosted(tasks) == Cardinality({i \in Tasks : tasks[i].at = "login"})

\* lines 178-186: the tasks are created and the coroutine waits in the gather;
\* each task runs to its first suspension before any answer can arrive
FanOutLandsat ==
    /\ pc = "loop"
    /\ clients_to_use[idx] = "landsat"
    /\ ~WindowsRaise(req.project_start_date, req.analysis_date)
    /\ pc' = "gather"
    /\ \E tasks \in [Tasks -> UNION {StartTask(i, session["landsat"], creds["landsat"]) :
                                      i \in Tasks}] :
          /\ \A i \in Tasks : tasks[i] \in StartTask(i, session["landsat"], creds["landsat"])
          /\ sub' = tasks
          /\ logins' = LoginsPosted(tasks)
    /\ UNCHANGED <<req, clients_to_use, idx, results, ret, creds, session, call, outcome,
                   default_client>>

\* _authenticate, lines 68-84: the login request of task i is answered; the
\* token is stored, or the call returns the simulated list
LoginAnswered(i) ==
    /\ pc = "gather"
    /\ sub[i].at = "login"
    /\ \E a \in LoginAnswers :
          IF a = "authenticated"
          THEN /\ session' = [session EXCEPT !["landsat"] = TRUE]
               /\ sub' = [sub EXCEPT ![i] = TaskAt("query", sub[i].call_no, "none")]
               /\ UNCHANGED logins
          ELSE /\ UNCHANGED session
               /\ \E l \in {"empty", "nonempty"} :
                     \E t \in AfterCall(i, sub[i].call_no, l, session["landsat"],
                                        creds["landsat"]) :
                        /\ sub' = [sub EXCEPT ![i] = t]
                        /\ logins' = logins + (IF t.at = "login" THEN 1 ELSE 0)
    /\ UNCHANGED <<pc, req, clients_to_use, idx, results, ret, creds, call, outcome,
                   default_client>>

\* _query_usgs_api, lines 146-197: the catalog request of task i is answered
CatalogAnswered(i) ==
    /\ pc = "gather"
    /\ sub[i].at = "query"
    /\ \E a \in CatalogAnswers :
          \E l \in (IF a \in {"http_error", "api_error"} THEN {"empty"}
                    ELSE {"empty", "nonempty"}) :
             \E t \in AfterCall(i, sub[i].call_no, l, session["landsat"], creds["landsat"]) :
                /\ sub' = [sub EXCEPT ![i] = t]
                /\ logins' = logins + (IF t.at = "login" THEN 1 ELSE 0)
    /\ UNCHANGED <<pc, req, clients_to_use, idx, results, ret, creds, session, call, outcome,
                   default_client>>

\* lines 186-213 and 109-113: every task has ended, the gather returns and the
\* client's dict is stored
JoinLandsat ==
    /\ pc = "gather"
    /\ \A i \in Tasks : sub[i].at = "done"
    /\ LET client_result == GatheredResult("landsat", [i \in Tasks |-> sub[i].res])
       IN  /\ results' = DictSet(results, client_result)
           /\ IF BreaksLoop("landsat", clients_to_use, client_result)
              THEN pc' = "synthesize" /\ UNCHANGED idx
              ELSE Advance
    /\ UNCHANGED <<req, clients_to_use, sub, ret, creds, session, call, outcome, logins,
                   default_client>>

NextFanOut ==
    \/ /\ pc = "idle"
       /\ \E b \in BoundsSet :
             /\ validate_bounds(b)
             /\ get_project_satellite_analysis(b, Today - 45, Today - 10, <<"landsat">>)
    \/ FanOutLandsat
    \/ \E i \in Tasks : LoginAnswered(i)
    \/ \E i \in Tasks : CatalogAnswered(i)
    \/ JoinLandsat

SpecFanOut == Init /\ [][NextFanOut]_vars

-----------------------------------------------------------------------------
(* Properties of the orchestrated analysis *)

Started == pc \notin {"idle", "raised"}
DatesInOrder == req.project_start_date < req.analysis_date
ResultOf(c) == CHOOSE r \in {results[k] : k \in 1..Len(results)} : r.key = c
Attempted == SubSeq(clients_to_use, 1, idx)
RECURSIVE Distinct(_)
Distinct(seq) ==
    IF seq = <<>> THEN <<>>
    ELSE LET front == Distinct(SubSeq(seq, 1, Len(seq) - 1))
             last == seq[Len(seq)]
         IN  IF \E k \in 1..Len(front) : front[k] = last THEN front
             ELSE Append(front, last)

\* C1: when every selected provider failed outright (its result has success
\* false), the request returns success false with a non-empty error.
C1_AllFailedReturnsError ==
    (pc = "returned" /\ \A k \in 1..Len(results) : ~results[k].success)
        => (ret.success = FALSE /\ ret.error # "")

\* C2: whatever subset of the four gathered tasks raised, the provider's stored
\* result has success true, and a field is null exactly when its task raised and
\* carries the task's value when it returned.
C2_PartialFailure ==
    [][ (pc = "gather" /\ pc' # "gather") =>
          LET r == CHOOSE x \in {results'[k] : k \in 1..Len(results')} :
                       x.key = clients_to_use[idx]
          IN  /\ r.success
              /\ \A i \in Tasks :
                    /\ (r.fields[i] = Null) <=> IsException(sub[i])
                    /\ Returned(sub[i]) => r.fields[i] = sub[i]
              /\ r.errors = {TaskName(i) : i \in {j \in Tasks : IsException(sub[j])}} ]_vars

\* C2, its case: a stored result in which exactly one field is null
C2_OneFieldNull ==
    \E k \in 1..Len(results) :
        /\ results[k].success
        /\ Cardinality({i \in Tasks : results[k].fields[i] = Null}) = 1

\* C3: a request with invalid bounds and dates in order raises instead of
\* returning a result.
C3_InvalidBoundsRaise ==
    (pc # "idle" /\ DatesInOrder /\ ~validate_bounds(req.project_bounds))
        => (pc # "returned" /\ ret.kind # "returned")

\* C4: a request with project_start_date >= analysis_date (equality included)
\* raises ValueError, and no client has been selected, no task created and no
\* result stored when it does.
C4_DateOrderRaises ==
    (pc # "idle" /\ ~DatesInOrder)
        => /\ pc = "raised"
           /\ ret.kind = "raised" /\ ret.error = "ValueError"
           /\ clients_to_use = <<>> /\ idx = 0
           /\ sub = IdleTasks /\ results = <<>>
           /\ session = [c \in clients |-> FALSE]

\* C4, its case: the request was refused for equal dates
C4_EqualDatesRefused ==
    pc = "raised" /\ req.project_start_date = req.analysis_date

\* C5: once the dates are in order the request never raises: at every position
\* it reaches before the return it has a client to go on with and every pending
\* task has an outcome, and what it returns carries a boolean success.
C5_NeverRaisesAfterDateCheck ==
    (pc # "idle" /\ DatesInOrder)
        => /\ pc # "raised" /\ ret.kind # "raised"
           /\ pc \in {"loop", "gather", "synthesize", "returned"}
           /\ pc \in {"loop", "gather"} => idx \in 1..Len(clients_to_use)
           /\ pc = "gather" =>
                 \A i \in Tasks :
                    sub[i] = "pending" =>
                       TaskOutcomes(i, clients_to_use[idx], session[clients_to_use[idx]],
                                    creds[clients_to_use[idx]], req.project_bounds,
                                    req.project_start_date, req.analysis_date) # {}
           /\ pc = "returned" => (ret.kind = "returned" /\ ret.success \in BOOLEAN)

\* C5, its case: the request returned although every provider failed outright
C5_ReturnedAfterFailures ==
    /\ pc = "returned" /\ ret.kind = "returned"
    /\ Len(results) >= 2
    /\ \A k \in 1..Len(results) : ~results[k].success

C7_MockIsLast ==
    Started => (clients_to_use # <<>> /\ clients_to_use[Len(clients_to_use)] = "mock")

\* C7 amended: a preference that is absent, empty or names no registered client
\* selects sentinel2 then mock; any other preference selects exactly its
\* registered names in the caller's order, so that "mock" is last only when it is
\* the last registered name of the preference.
C7_SelectionFollowsPreference ==
    Started =>
        LET p == req.client_preference
            registered == IF p = NoPreference THEN {}
                          ELSE {k \in 1..Len(p) : p[k] \in clients}
        IN  IF registered = {}
            THEN clients_to_use = <<"sentinel2", "mock">>
            ELSE /\ Len(clients_to_use) = Cardinality(registered)
                 /\ \A k \in 1..Len(clients_to_use) :
                       clients_to_use[k] =
                           p[CHOOSE n \in registered :
                                Cardinality({m \in registered : m <= n}) = k]

\* C7, its case: a preference without "mock" was selected as it is
C7_PreferenceWithoutMock ==
    /\ pc = "returned"
    /\ req.client_preference = <<"landsat", "nonexistent">>
    /\ clients_to_use = <<"landsat">>
    /\ ret.data_sources = <<"landsat">>

\* C8: for valid bounds calculate_area_hectares is positive, and so is the
\* total_area_hectares of every synthesized report.
C8_AreaPositive ==
    (pc = "returned" /\ validate_bounds(req.project_bounds)
       /\ ret.satellite_analysis.error = "")
        => /\ calculate_area_hectares(req.project_bounds) > 0
           /\ ret.satellite_analysis.total_area_hectares > 0

\* C13: an analysis with preference ["mock"], valid bounds and
\* project_start_date < analysis_date returns success with monitoring_available
\* and assessment_available true and monitoring_duration_days equal to the
\* number of days from project_start_date to analysis_date.
C13_MockAnalysisComplete ==
    (pc = "returned" /\ req.client_preference = <<"mock">>
       /\ validate_bounds(req.project_bounds) /\ DatesInOrder)
        => /\ ret.success
           /\ ret.satellite_analysis.monitoring_available
           /\ ret.satellite_analysis.assessment_available
           /\ ret.monitoring_duration_days = req.analysis_date - req.project_start_date

\* C20: when the result of the first selected client is incomplete (success,
\* but one of its four fields null) and another client is selected after it,
\* the analysis goes on to query that next client.
C20_IncompleteGoesOn ==
    (pc = "returned" /\ Len(clients_to_use) >= 2
       /\ clients_to_use[2] # clients_to_use[1]
       /\ ResultOf(clients_to_use[1]).success
       /\ \E i \in Tasks : ResultOf(clients_to_use[1]).fields[i] = Null)
        => (idx >= 2 /\ \E k \in 1..Len(results) : results[k].key = clients_to_use[2])

\* a window <<first, last>> in order, at most 30 days long, inside the
\* monitoring period
WindowWellFormed(w, start_date, analysis_date) ==
    /\ w[1] <= w[2]
    /\ w[2] - w[1] <= 30
    /\ start_date <= w[1]
    /\ w[2] <= analysis_date

\* C26: for project_start_date < analysis_date, the baseline and the current
\* window handed to the tasks are in order, at most 30 days long and inside
\* [project_start_date, analysis_date]; the baseline window starts at
\* project_start_date and the current window ends at analysis_date.
C26_WindowsWellFormed ==
    pc = "gather" =>
        LET b == baseline_period(req.project_start_date, req.analysis_date)
            c == current_period(req.project_start_date, req.analysis_date)
        IN  /\ WindowWellFormed(b, req.project_start_date, req.analysis_date)
            /\ WindowWellFormed(c, req.project_start_date, req.analysis_date)
            /\ b[1] = req.project_start_date
            /\ c[2] = req.analysis_date

\* tasks are outstanding for a monitoring period shorter than 30 days
C26_ShortPeriodGathered ==
    /\ pc = "gather"
    /\ req.analysis_date - req.project_start_date < WindowDays

\* C23: the providers are queried one after the other: the tasks of a provider
\* are started only when no task of an earlier provider is outstanding, the wait
\* for a provider ends only when all four of its tasks have finished, and the
\* synthesis begins only when no task is outstanding.
C23_ProvidersInSequence ==
    [][ /\ (pc = "loop" /\ pc' = "gather") => sub = IdleTasks
        /\ (pc = "gather" /\ pc' # "gather") => \A i \in Tasks : sub[i] # "pending"
        /\ pc' = "synthesize" => \A i \in Tasks : sub'[i] # "pending" ]_vars

\* the synthesis is reached after a gather in which some task raised
C23_SynthesisAfterGather ==
    /\ pc = "synthesize"
    /\ Len(results) = 1
    /\ results[1].success
    /\ results[1].errors # {}

\* the two narrow entry points
EntryPoints ==
    {"get_satellite_imagery_for_project", "calculate_vegetation_index_for_project"}

\* C27: default_client always names a registered client: set_default_client
\* with an unregistered name raises and leaves it unchanged, and each narrow
\* entry point returns a dict whose client is the one requested, or the default
\* one when the requested name is absent or unregistered.
C27_DefaultRegistered ==
    /\ [](default_client \in clients)
    /\ [][ /\ (call'.op = "set_default_client" /\ call'.client_name \notin clients)
              => (outcome'.res = "ValueError" /\ default_client' = default_client)
           /\ call'.op \in EntryPoints
              => /\ outcome'.res = "value"
                 /\ outcome'.client_used =
                       client_name(IF call'.client_name \in clients
                                   THEN call'.client_name ELSE default_client) ]_vars

\* an entry point called with an unregistered name after the default was set to
\* landsat answers with the Landsat client
C27_FallsBackToNewDefault ==
    /\ call.op \in EntryPoints
    /\ call.client_name = "nonexistent"
    /\ default_client = "landsat"
    /\ outcome.client_used = "Landsat"

\* C22: the four gathered tasks of one client share no mutable state, so with
\* credentials configured the client authenticates at most once in a fan-out.
C22_OneLoginPerFanOut ==
    (pc \in {"gather", "synthesize"} /\ creds["landsat"]) => logins <= 1

-----------------------------------------------------------------------------
(* Properties of the clients' operations *)

Called(op) == call.op = op
LiveAccessUnavailable ==
    outcome.net \in {"no_credentials", "api_init_failed", "auth_rejected",
                     "auth_raised", "query_raised", "http_error", "api_error"}

\* C9: for valid bounds and any two dates, each of the three operations of the
\* mock client returns a result and never raises.
C9_MockNeverRaises ==
    (call.op # "none" /\ call.client = "mock" /\ validate_bounds(call.bounds))
        => Returned(outcome.res)

\* C10: for sentinel2 and landsat with valid bounds, whenever live access is
\* unavailable (no credentials, login rejected or raising, catalog request
\* raising, catalog answering with an HTTP or API error), get_imagery_metadata
\* returns the list made by the client's own synthetic generator.
C10_FallsBackToSynthetic ==
    (Called("get_imagery_metadata") /\ call.client \in LiveClients
       /\ validate_bounds(call.bounds) /\ LiveAccessUnavailable)
        => (IsList(outcome.res) /\ outcome.src = "synthetic")

\* C12: for the mock client, valid bounds and a one-month window,
\* get_imagery_metadata returns a non-empty list on every run.
C12_MonthWindowNonEmpty ==
    (Called("get_imagery_metadata") /\ call.client = "mock"
       /\ validate_bounds(call.bounds)
       /\ call.end_date - call.start_date = MonthDays)
        => outcome.res = "nonempty"

-----------------------------------------------------------------------------
(* The statistics of a vegetation index.  An index value, a standard
   deviation and a confidence are integers in ten-thousandths (round(x, 4));
   a cloud cover is in percent; the sine of the seasonal angle is an input in
   ten-thousandths. *)

\* round(x, 4): the number of ten-thousandths in 1.0
Unit == 10000

\* max(0.0, min(1.0, x))
Clamp01(x) == Max(0, Min(Unit, x))

\* values of sin(...) the seasonal adjustment is computed from
SineSet == {-Unit, -5000, 0, 5000, Unit}

\* mean cloud cover of the scenes used, in percent
AvgCloudSet == {0, 20, 100}

IndexTypes == {"NDVI", "NDWI"}

\* random.uniform(-0.1, 0.1), random.uniform(0.05, 0.15), random.uniform(-0.02, 0.02)
MockMeanDraws == {-1000, 0, 1000}
MockStdDraws == {500, 1500}
MockMedianDraws == {-200, 200}

Statistics(mean, std, min, max, median, pixel_count, valid_pixels) ==
    [ mean |-> mean, std |-> std, min |-> min, max |-> max, median |-> median,
      pixel_count |-> pixel_count, valid_pixels |-> valid_pixels ]

\* MockSatelliteClient.get_vegetation_index, lines 188-218; area in 1/100 ha
Mock_statistics(area, sine, u, std_ndvi, m) ==
    LET base_ndvi == IF area > 1000 * 100 THEN 6000 ELSE 4000
        seasonal_factor == sine \div 10
        mean_ndvi == Clamp01(base_ndvi + seasonal_factor + u)
        min_ndvi == Max(0, mean_ndvi - 2 * std_ndvi)
        max_ndvi == Min(Unit, mean_ndvi + 2 * std_ndvi)
    IN  Statistics(mean_ndvi, std_ndvi, min_ndvi, max_ndvi, mean_ndvi + m,
                   area, (area * 85) \div 100)

\* random.uniform(0.08, 0.18) and random.uniform(-0.02, 0.02)
Sentinel2StdDraws == {800, 1800}
Sentinel2MedianDraws == {-200, 200}

\* variant of Sentinel2_statistics with the two range formulas exchanged
Sentinel2_statistics_swapped(index_type, area, sine, avg_cloud_cover, std_value, m) ==
    LET base_value == IF index_type = "NDVI" THEN 6500 ELSE 2500
        mean_value == Clamp01(base_value + 500 + (1500 * sine) \div Unit
                              - avg_cloud_cover * 10)
        min_value == Min(Unit, mean_value + (25 * std_value) \div 10)
        max_value == Max(0, mean_value - (25 * std_value) \div 10)
    IN  Statistics(mean_value, std_value, min_value, max_value, mean_value + m,
                   area, (area * 92) \div 100)

\* Sentinel2Client._calculate_sentinel2_vegetation_index, lines 264-313
Sentinel2_statistics(index_type, area, sine, avg_cloud_cover, std_value, m) ==
    LET base_value == IF index_type = "NDVI" THEN 6500 ELSE 2500
        resolution_boost == 500
        seasonal_factor == (1500 * sine) \div Unit
        cloud_penalty == avg_cloud_cover * 10
        mean_value == Clamp01(base_value + resolution_boost + seasonal_factor
                              - cloud_penalty)
        min_value == Max(0, mean_value - (25 * std_value) \div 10)
        max_value == Min(Unit, mean_value + (25 * std_value) \div 10)
    IN  Statistics(mean_value, std_value, min_value, max_value, mean_value + m,
                   area, (area * 92) \div 100)

\* random.uniform(0.06, 0.14) and random.uniform(-0.025, 0.025)
LandsatStdDraws == {600, 1400}
LandsatMedianDraws == {-250, 250}

\* LandsatClient._calculate_landsat_vegetation_index, lines 333-388; a hectare
\* holds 10000 / (30 * 30) pixels
Landsat_statistics(index_type, area, sine, avg_cloud_cover, std_value, m) ==
    LET base_value == IF index_type = "NDVI" THEN 6200 ELSE 2200
        resolution_factor == 200
        temporal_depth_bonus == 300
        seasonal_factor == (1200 * sine) \div Unit
        cloud_penalty == (avg_cloud_cover * 125) \div 10
        mean_value == Clamp01(base_value + resolution_factor + temporal_depth_bonus
                              + seasonal_factor - cloud_penalty)
        min_value == Max(0, mean_value - (22 * std_value) \div 10)
        max_value == Min(Unit, mean_value + (22 * std_value) \div 10)
    IN  Statistics(mean_value, std_value, min_value, max_value, mean_value + m,
                   area \div 9, (area * 88) \div 900)

\* the statistics a client may compute for one call: one per random draw
StatisticsOf(c, index_type, b, sine, avg_cloud_cover) ==
    LET area == calculate_area_hectares(b)
    IN  CASE c = "mock" ->
               { Mock_statistics(area, sine, u, sd, m) :
                   u \in MockMeanDraws, sd \in MockStdDraws, m \in MockMedianDraws }
          [] c = "sentinel2" ->
               { Sentinel2_statistics(index_type, area, sine, avg_cloud_cover, sd, m) :
                   sd \in Sentinel2StdDraws, m \in Sentinel2MedianDraws }
          [] c = "landsat" ->
               { Landsat_statistics(index_type, area, sine, avg_cloud_cover, sd, m) :
                   sd \in LandsatStdDraws, m \in LandsatMedianDraws }

-----------------------------------------------------------------------------
(* Calls of the clients' calculators.  They keep no state: a behaviour is one
   call, made once or repeated with the same arguments. *)

StatisticsCall(c, index_type, b, sine, avg_cloud_cover) ==
    [ op |-> "statistics", client |-> c, index_type |-> index_type, bounds |-> b,
      sine |-> sine, avg_cloud_cover |-> avg_cloud_cover ]

\* the statistics block of get_vegetation_index
Call_statistics(c, index_type, b, sine, avg_cloud_cover) ==
    /\ pc = "idle"
    /\ validate_bounds(b)
    /\ call \in {NoCall, StatisticsCall(c, index_type, b, sine, avg_cloud_cover)}
    /\ call' = StatisticsCall(c, index_type, b, sine, avg_cloud_cover)
    /\ \E st \in StatisticsOf(c, index_type, b, sine, avg_cloud_cover) :
          outcome' = [res |-> "value", statistics |-> st]
    /\ UNCHANGED <<pc, req, clients_to_use, idx, sub, results, ret, creds, logins, default_client, session>>

-----------------------------------------------------------------------------
(* The classification of a change between two dates.  The two means of an
   index are statistics["mean"] of the two get_vegetation_index results, so a
   change is a whole number of ten-thousandths. *)

Classification(change_type, confidence) ==
    [ change_type |-> change_type, confidence |-> confidence ]

\* variant of _classify_change_sentinel2 whose noise floor is 0.04
_classify_change_sentinel2_low_floor(ndvi_change, relative_change, days_between) ==
    LET abs_change == Abs(ndvi_change)
        base_confidence == Min(9500, 6000 + abs_change * 2)
        temporal_confidence == Min(Unit, (days_between * Unit) \div 365)
        confidence == (base_confidence * temporal_confidence) \div Unit
    IN  IF abs_change < 400 THEN Classification("stable", confidence)
        ELSE IF ndvi_change > 1500 THEN Classification("afforestation", confidence)
        ELSE IF ndvi_change > 800 THEN Classification("vegetation_growth", confidence)
        ELSE IF ndvi_change < -1500 THEN Classification("deforestation", confidence)
        ELSE IF ndvi_change < -800 THEN Classification("vegetation_loss", confidence)
        ELSE IF ndvi_change > 0
        THEN Classification("vegetation_improvement", (confidence * 8) \div 10)
        ELSE Classification("vegetation_decline", (confidence * 8) \div 10)

\* Sentinel2Client._classify_change_sentinel2
_classify_change_sentinel2(ndvi_change, relative_change, days_between) ==
    LET abs_change == Abs(ndvi_change)
        base_confidence == Min(9500, 6000 + abs_change * 2)
        temporal_confidence == Min(Unit, (days_between * Unit) \div 365)
        confidence == (base_confidence * temporal_confidence) \div Unit
    IN  IF abs_change < 500 THEN Classification("stable", confidence)
        ELSE IF ndvi_change > 1500 THEN Classification("afforestation", confidence)
        ELSE IF ndvi_change > 800 THEN Classification("vegetation_growth", confidence)
        ELSE IF ndvi_change < -1500 THEN Classification("deforestation", confidence)
        ELSE IF ndvi_change < -800 THEN Classification("vegetation_loss", confidence)
        ELSE IF ndvi_change > 0
        THEN Classification("vegetation_improvement", (confidence * 8) \div 10)
        ELSE Classification("vegetation_decline", (confidence * 8) \div 10)

\* LandsatClient._classify_change_landsat
_classify_change_landsat(ndvi_change, nbr_change, days_between) ==
    LET change_magnitude == Max(Abs(ndvi_change), Abs(nbr_change))
        base_confidence == Min(9200, 6500 + (change_magnitude * 18) \div 10)
        temporal_confidence == Min(Unit, (days_between * Unit) \div 730)
        confidence == (base_confidence * (7000 + (temporal_confidence * 3) \div 10)) \div Unit
    IN  IF change_magnitude < 400 THEN Classification("stable", confidence)
        ELSE IF ndvi_change > 1200 /\ nbr_change > 800
        THEN Classification("afforestation", confidence)
        ELSE IF ndvi_change > 600 THEN Classification("vegetation_growth", confidence)
        ELSE IF ndvi_change < -1200 /\ nbr_change < -1500
        THEN Classification("deforestation", confidence)
        ELSE IF nbr_change < -2000 THEN Classification("forest_disturbance", confidence)
        ELSE IF ndvi_change < -600 THEN Classification("vegetation_decline", confidence)
        ELSE IF nbr_change < -1000
        THEN Classification("moderate_disturbance", (confidence * 9) \div 10)
        ELSE IF ndvi_change > 0
        THEN Classification("vegetation_improvement", (confidence * 85) \div 100)
        ELSE Classification("vegetation_stress", (confidence * 8) \div 10)

\* random.choice([...]) of the mock client's simulated change
MockChangeTypes ==
    {"deforestation", "afforestation", "urbanization", "agriculture_expansion",
     "natural_disturbance"}

\* random.uniform(0.75, 0.95)
MockConfidenceDraws == {7500, 9500}

\* MockSatelliteClient.detect_land_cover_change: change_probability is
\* min(0.5, days_between / 365.0 * 0.2), and random.random() is never below 0
Mock_classify_change(days_between) ==
    { Classification(t, k) :
        t \in {"stable"} \cup (IF days_between > 0 THEN MockChangeTypes ELSE {}),
        k \in MockConfidenceDraws }

\* statistics["mean"] of the NDVI and of the NBR results of the two dates
NdviMeans == {5300, 6000, 6499, 6500, 7500, 8500}
NbrMeans == {4000, 4399, 6100}

\* only the Landsat client computes the NBR; the others have no such mean
NbrMeansOf(c) == IF c = "landsat" THEN NbrMeans ELSE {0}

\* the date pairs whose change is classified: five weeks, the same reversed,
\* the same day twice, more than two years, and reversed by more than five years
ChangePeriods ==
    { <<Today - 45, Today - 10>>, <<Today - 10, Today - 45>>, <<Today - 10, Today - 10>>,
      <<Today - 800, Today - 10>>, <<Today - 10, Today - 2000>> }

\* (ndvi_change / before mean) * 100 if before mean > 0 else 0, in hundredths
RelativeChange(change, before_mean) ==
    IF before_mean > 0 THEN (change * Unit) \div before_mean ELSE 0

ChangeCall(c, area_hectares, before_ndvi, after_ndvi, before_nbr, after_nbr, before_date, after_date) ==
    [ op |-> "detect_change", client |-> c, area_hectares |-> area_hectares,
      before_ndvi |-> before_ndvi,
      after_ndvi |-> after_ndvi, before_nbr |-> before_nbr, after_nbr |-> after_nbr,
      before_date |-> before_date, after_date |-> after_date ]

\* self.calculate_area_hectares(bounds) of the project areas (-74.0, 4.6, -73.99,
\* 4.61) and (10.0, 45.0, 10.01, 45.01): 9.890 ha and 96.656 ha, in thousandths
\* of a hectare (the areas of the grid of BoundsSet have no third decimal)
AreaDraws == {9890, 96656}

\* round(x, 2) of a non-negative number of thousandths
Round2(x) == ((x + 5) \div 10) * 10

\* random.uniform(0.01, 0.15) and random.uniform(0.001, 0.005), in ten-thousandths
MockChangedShares == {100, 1500}
MockStableShares == {10, 50}

\* change_area of the three clients, in thousandths of a hectare
ChangeAreas(c, change_type, area_hectares, ndvi_change, relative_change, nbr_change) ==
    CASE c = "mock" ->
           { (area_hectares * share) \div Unit :
               share \in IF change_type = "stable" THEN MockStableShares
                         ELSE MockChangedShares }
      [] c = "sentinel2" ->
           { IF Abs(ndvi_change) > 1000
             THEN (area_hectares * Min(Unit, (Abs(relative_change) * Unit) \div 5000)) \div Unit
             ELSE (area_hectares * Abs(relative_change)) \div Unit }
      [] c = "landsat" ->
           LET change_magnitude == Max(Abs(ndvi_change), Abs(nbr_change))
           IN  { IF change_magnitude > 800
                 THEN (area_hectares * Min(Unit, change_magnitude * 4)) \div Unit
                 ELSE (area_hectares * change_magnitude) \div (2 * Unit) }

\* the area_analysis block: areas in thousandths of a hectare, the percentage in
\* hundredths of a percent
area_analysis(area_hectares, change_area) ==
    [ total_area_hectares |-> area_hectares,
      changed_area_hectares |-> Round2(change_area),
      change_percentage |-> (2 * change_area * Unit + area_hectares) \div (2 * area_hectares),
      stable_area_hectares |-> Round2(area_hectares - change_area) ]

\* detect_land_cover_change from the four statistics on: the changes, the
\* classification, and the area_analysis and change_detection blocks of the result
Call_classify_change(c, area_hectares, before_ndvi, after_ndvi, before_nbr, after_nbr, before_date, after_date) ==
    LET this == ChangeCall(c, area_hectares, before_ndvi, after_ndvi, before_nbr,
                           after_nbr, before_date, after_date)
        days_between == after_date - before_date
        ndvi_change == after_ndvi - before_ndvi
        nbr_change == after_nbr - before_nbr
        relative_change == RelativeChange(ndvi_change, before_ndvi)
        classified ==
            CASE c = "mock" -> Mock_classify_change(days_between)
              [] c = "sentinel2" ->
                   {_classify_change_sentinel2(ndvi_change, relative_change, days_between)}
              [] c = "landsat" ->
                   {_classify_change_landsat(ndvi_change, nbr_change, days_between)}
    IN  /\ pc = "idle"
        /\ call = NoCall
        /\ call' = this
        /\ \E k \in classified :
              \E change_area \in ChangeAreas(c, k.change_type, area_hectares, ndvi_change,
                                             relative_change, nbr_change) :
                 outcome' = [ res |-> "value", days_between |-> days_between,
                              area_analysis |-> area_analysis(area_hectares, change_area),
                              primary_change_type |-> k.change_type,
                              confidence_score |-> k.confidence,
                              ndvi_change |-> ndvi_change, nbr_change |-> nbr_change ]
        /\ UNCHANGED <<pc, req, clients_to_use, idx, sub, results, ret, creds, logins, default_client, session>>

-----------------------------------------------------------------------------
(* The area of a rectangle of bounds *)

\* valid bounds that differ in one extent only: the unit cell north of the
\* equator, the same made wider, made taller northwards and made taller across
\* the equator, and two cells centred on the equator
ExtentBoundsSet ==
    { <<0, 10, 10, 20>>, <<0, 10, 20, 20>>, <<0, 10, 10, 30>>, <<0, -15, 10, 20>>,
      <<0, -10, 10, 10>>, <<0, -10, 20, 10>> }

\* client.calculate_area_hectares(bounds)
Call_calculate_area_hectares(b) ==
    /\ pc = "idle"
    /\ validate_bounds(b)
    /\ call.op \in {"none", "calculate_area_hectares"}
    /\ call' = [op |-> "calculate_area_hectares", client |-> "mock", bounds |-> b]
    /\ outcome' = [res |-> "value", area_hectares |-> calculate_area_hectares(b)]
    /\ UNCHANGED <<pc, req, clients_to_use, idx, sub, results, ret, creds, logins, default_client, session>>

-----------------------------------------------------------------------------
(* The synthesis as a function of the results dict *)

\* what the four gathered tasks of a client can have left: each one a value
\* or an exception
GatheredSet(c) ==
    { GatheredResult(c, done) :
        done \in [Tasks -> {"value", "ValueError"}] }

\* the results dicts handed to the synthesis: one or two clients, each failed
\* or gathered, in either insertion order
ResultsDicts ==
    LET ResultsOf(c) == {FailedResult(c)} \cup GatheredSet(c)
    IN  { <<r>> : r \in ResultsOf("sentinel2") \cup ResultsOf("mock") }
        \cup { <<r1, r2>> : r1 \in ResultsOf("sentinel2"), r2 \in ResultsOf("mock") }
        \cup { <<r2, r1>> : r1 \in ResultsOf("sentinel2"), r2 \in ResultsOf("mock") }

\* await self._synthesize_project_analysis(results, project_bounds)
Call_synthesize(client_results, b) ==
    /\ pc = "idle"
    /\ call = NoCall
    /\ call' = [op |-> "_synthesize_project_analysis", client_results |-> client_results,
                bounds |-> b]
    /\ outcome' = [res |-> "value",
                   analysis |-> _synthesize_project_analysis(client_results, b)]
    /\ UNCHANGED <<pc, req, clients_to_use, idx, sub, results, ret, creds, logins, default_client, session>>

\* the values of interpretation.vegetation_health the clients produce, and the
\* absence of a current_vegetation result
NoVegetation == "none"
HealthValues == {"excellent", "good", "moderate", "poor", "very_poor", NoVegetation}

\* the classes the three clients report as primary_change_type, and the absence
\* of a change_analysis result
NoChange == "none"
ChangeTypes ==
    {"stable", "afforestation", "vegetation_growth", "vegetation_improvement",
     "deforestation", "vegetation_loss", "vegetation_decline", "forest_disturbance",
     "moderate_disturbance", "vegetation_stress"} \cup MockChangeTypes \cup {NoChange}

\* word in change_type, for the three words the recommendations look for
Contains(change_type, word) ==
    CASE word = "deforestation" -> change_type = "deforestation"
      [] word = "decline" -> change_type = "vegetation_decline"
      [] word = "disturbance" ->
            change_type \in {"forest_disturbance", "moderate_disturbance",
                             "natural_disturbance"}

\* SatelliteDataService._generate_monitoring_recommendations, from the health of
\* the current vegetation, the primary change type and whether errors is non-empty
_generate_monitoring_recommendations(health, change_type, has_errors) ==
    LET on_health ==
            IF health = NoVegetation THEN <<>>
            ELSE IF health \in {"poor", "very_poor"}
            THEN <<"Increase monitoring frequency due to poor vegetation health",
                   "Consider intervention measures to improve ecosystem health">>
            ELSE IF health = "moderate"
            THEN <<"Regular monthly monitoring recommended">>
            ELSE <<"Continue standard quarterly monitoring">>
        on_change ==
            IF change_type = NoChange THEN <<>>
            ELSE IF Contains(change_type, "deforestation") \/ Contains(change_type, "decline")
            THEN <<"Urgent: Investigate causes of vegetation loss",
                   "Implement protective measures immediately">>
            ELSE IF Contains(change_type, "disturbance")
            THEN <<"Monitor recovery progress closely",
                   "Consider restoration activities if natural recovery is slow">>
            ELSE <<>>
        on_errors ==
            IF has_errors
            THEN <<"Improve satellite data quality by reducing cloud cover constraints">>
            ELSE <<>>
        recommendations == on_health \o on_change \o on_errors
    IN  IF recommendations = <<>>
        THEN <<"Continue regular satellite monitoring to track project progress">>
        ELSE recommendations

\* self._generate_monitoring_recommendations(best_result)
Call_recommendations(health, change_type, has_errors) ==
    /\ pc = "idle"
    /\ call = NoCall
    /\ call' = [op |-> "_generate_monitoring_recommendations", health |-> health,
                change_type |-> change_type, has_errors |-> has_errors]
    /\ outcome' = [res |-> "value",
                   recommendations |->
                       _generate_monitoring_recommendations(health, change_type, has_errors)]
    /\ UNCHANGED <<pc, req, clients_to_use, idx, sub, results, ret, creds, logins, default_client, session>>

\* variant of _interpret_vegetation_trend whose comparisons include the cut points
_interpret_vegetation_trend_inclusive(baseline_ndvi, current_ndvi) ==
    LET change == current_ndvi - baseline_ndvi
    IN  IF change >= 1000 THEN "significantly_improving"
        ELSE IF change >= 500 THEN "improving"
        ELSE IF change >= -500 THEN "stable"
        ELSE IF change >= -1000 THEN "declining"
        ELSE "significantly_declining"

\* SatelliteDataService._interpret_vegetation_trend, the NDVI means in
\* ten-thousandths
_interpret_vegetation_trend(baseline_ndvi, current_ndvi) ==
    LET change == current_ndvi - baseline_ndvi
    IN  IF change > 1000 THEN "significantly_improving"
        ELSE IF change > 500 THEN "improving"
        ELSE IF change > -500 THEN "stable"
        ELSE IF change > -1000 THEN "declining"
        ELSE "significantly_declining"

\* the NDVI means the trend is interpreted for: differences on, next to and
\* between the cut points, from two baselines
TrendBaselines == {3000, 6000}
TrendChanges == {-1500, -1001, -1000, -999, -501, -500, -499, 0, 499, 500, 501, 999, 1000, 1001, 1500}

\* self._interpret_vegetation_trend(baseline_ndvi, current_ndvi)
Call_interpret_trend(baseline_ndvi, current_ndvi) ==
    /\ pc = "idle"
    /\ call = NoCall
    /\ call' = [op |-> "_interpret_vegetation_trend", baseline_ndvi |-> baseline_ndvi,
                current_ndvi |-> current_ndvi]
    /\ outcome' = [res |-> "value",
                   trend |-> _interpret_vegetation_trend(baseline_ndvi, current_ndvi)]
    /\ UNCHANGED <<pc, req, clients_to_use, idx, sub, results, ret, creds, logins, default_client, session>>

-----------------------------------------------------------------------------
(* VegetationIndicesCalculator: the indices derived from one (NDVI, EVI) pair,
   in ten-thousandths *)

\* the NDVI and EVI values the indices are derived from: on and next to the cut
\* points of the LAI and fPAR curves, negative ones, ones above 1, and the NDVI
\* of -2.0 for which the SAVI formula divides by zero
NdviInputs ==
    {-20000, -2000, 0, 1000, 1250, 2000, 3500, 5000, 8000, 8001, 10000, 30000}
EviInputs == {-2000, 0, 4000, 9000, 36000}

\* np.log(x), rounded to four decimals, at the arguments 1 + (ndvi - 0.5) * 10
\* of the NDVI values from 0.5 on
np_log(x) ==
    CASE x = 10000 -> 0
      [] x = 40000 -> 13863
      [] x = 40010 -> 13865
      [] x = 60000 -> 17918
      [] x = 260000 -> 32581

\* round(x, 2)
RoundHundredths(x) == ((x + 50) \div 100) * 100

\* variant of _estimate_lai without the bounds of line 193
_estimate_lai_unbounded(ndvi, evi) ==
    LET curve == IF ndvi < 2000 THEN 1000
                 ELSE IF ndvi < 5000 THEN ((ndvi - 2000) * 667) \div 100
                 ELSE 20000 + (np_log(Unit + (ndvi - 5000) * 10) * 15) \div 10
        evi_factor == IF ndvi > 0
                      THEN Max(8000, Min(12000, (evi * Unit) \div ndvi))
                      ELSE Unit
    IN  RoundHundredths((curve * evi_factor) \div Unit)

\* VegetationIndicesCalculator._estimate_lai: the 'value' of the result
_estimate_lai(ndvi, evi) ==
    LET curve == IF ndvi < 2000 THEN 1000
                 ELSE IF ndvi < 5000 THEN ((ndvi - 2000) * 667) \div 100
                 ELSE 20000 + (np_log(Unit + (ndvi - 5000) * 10) * 15) \div 10
        evi_factor == IF ndvi > 0
                      THEN Max(8000, Min(12000, (evi * Unit) \div ndvi))
                      ELSE Unit
        lai_value == (curve * evi_factor) \div Unit
    IN  RoundHundredths(Max(1000, Min(80000, lai_value)))

\* VegetationIndicesCalculator._calculate_fpar: the 'value' of the result
_calculate_fpar(ndvi) ==
    LET fpar_value == IF ndvi < 1250 THEN 0
                      ELSE IF ndvi > 8000 THEN 9500
                      ELSE (125 * ndvi - 156250 + 50) \div 100
    IN  Max(0, Min(9500, fpar_value))

\* VegetationIndicesCalculator._assess_data_quality: overall_score
_assess_data_quality(lai_value, fpar_value) ==
    (IF 1000 <= lai_value /\ lai_value <= 80000 THEN 25 ELSE 0)
    + (IF 0 <= fpar_value /\ fpar_value <= 9500 THEN 25 ELSE 0)
    + 50

\* _calculate_savi divides by 1 + L * ndvi with L = 0.5
SaviDividesByZero(ndvi) == 2 * Unit + ndvi = 0

\* VegetationIndicesCalculator.calculate_comprehensive_indices: success with the
\* indices and the quality score, or success: False when a calculation raised
Call_comprehensive_indices(ndvi, evi) ==
    /\ pc = "idle"
    /\ call = NoCall
    /\ call' = [op |-> "calculate_comprehensive_indices", ndvi |-> ndvi, evi |-> evi]
    /\ outcome' =
          IF SaviDividesByZero(ndvi)
          THEN [res |-> "value", success |-> FALSE, error |-> "ZeroDivisionError"]
          ELSE [res |-> "value", success |-> TRUE,
                lai |-> _estimate_lai(ndvi, evi),
                fpar |-> _calculate_fpar(ndvi),
                overall_score |-> _assess_data_quality(_estimate_lai(ndvi, evi),
                                                       _calculate_fpar(ndvi))]
    /\ UNCHANGED <<pc, req, clients_to_use, idx, sub, results, ret, creds, logins, default_client, session>>

NextCalc ==
    \/ /\ call = NoCall
       /\ \E ndvi \in NdviInputs, evi \in EviInputs : Call_comprehensive_indices(ndvi, evi)
    \/ /\ call = NoCall
       /\ \E health \in HealthValues, change_type \in ChangeTypes, has_errors \in BOOLEAN :
             Call_recommendations(health, change_type, has_errors)
    \/ /\ call = NoCall
       /\ \E baseline_ndvi \in TrendBaselines, change \in TrendChanges :
             Call_interpret_trend(baseline_ndvi, baseline_ndvi + change)
    \/ /\ call = NoCall
       /\ \E client_results \in ResultsDicts :
             Call_synthesize(client_results, <<-740, 46, -739, 47>>)
    \/ /\ call.op \in {"none", "statistics"}
       /\ \E c \in clients, t \in IndexTypes, b \in BoundsSet, s \in SineSet,
             k \in AvgCloudSet :
             /\ c = "mock" => (t = "NDVI" /\ k = 0)
             /\ Call_statistics(c, t, b, s, k)
    \/ /\ call = NoCall
       /\ \E c \in clients, bn \in NdviMeans, an \in NdviMeans, p \in ChangePeriods :
             \E bb \in NbrMeansOf(c), ab \in NbrMeansOf(c), area_hectares \in AreaDraws :
                Call_classify_change(c, area_hectares, bn, an, bb, ab, p[1], p[2])
    \/ \E b \in ExtentBoundsSet : Call_calculate_area_hectares(b)

SpecCalc == Init /\ [][NextCalc]_vars

-----------------------------------------------------------------------------
(* Properties of the calculators *)

\* C11: two calls of the mock client's get_vegetation_index with the same
\* bounds, date range and index type return the same statistics.
C11_SameStatistics ==
    [][ (call.op = "statistics" /\ call.client = "mock" /\ call' = call)
          => outcome'.statistics = outcome.statistics ]_vars

\* C14: the statistics of every vegetation-index result of the three clients
\* satisfy min <= mean <= max, std >= 0, valid_pixels <= pixel_count and
\* -1 <= mean <= 1.
C14_StatisticsInRange ==
    call.op = "statistics"
        => LET st == outcome.statistics
           IN  /\ st.min <= st.mean /\ st.mean <= st.max
               /\ st.std >= 0
               /\ st.valid_pixels <= st.pixel_count
               /\ -Unit <= st.mean /\ st.mean <= Unit

\* a Sentinel-2 result whose minimum was cut off at 0 and a Landsat result with pixels
C14_RangeCutOff ==
    /\ call.op = "statistics" /\ call.client = "sentinel2"
    /\ outcome.statistics.min = 0 /\ outcome.statistics.mean > 0
    /\ outcome.statistics.max > outcome.statistics.mean
    /\ outcome.statistics.pixel_count > 0

\* C15: when the magnitude of the change is below the noise floor (Sentinel-2:
\* |NDVI change| < 0.05; Landsat: max(|NDVI change|, |NBR change|) < 0.04) the
\* classification is "stable", whatever the signs and whatever days_between.
C15_BelowFloorStable ==
    /\ (call.op = "detect_change" /\ call.client = "sentinel2"
          /\ Abs(outcome.ndvi_change) < 500)
         => outcome.primary_change_type = "stable"
    /\ (call.op = "detect_change" /\ call.client = "landsat"
          /\ Max(Abs(outcome.ndvi_change), Abs(outcome.nbr_change)) < 400)
         => outcome.primary_change_type = "stable"

\* a negative Sentinel-2 change just below the floor over reversed dates
C15_JustBelowFloor ==
    /\ call.op = "detect_change" /\ call.client = "sentinel2"
    /\ outcome.ndvi_change = -499 /\ outcome.days_between < 0
    /\ outcome.primary_change_type = "stable"

\* C16: the confidence score of every change-detection result is in [0, 1],
\* for every pair of dates for which a result is returned.
C16_ConfidenceInUnitInterval ==
    call.op = "detect_change"
        => (0 <= outcome.confidence_score /\ outcome.confidence_score <= Unit)

\* number of non-null fields among the four of a client's result
NonNullFields(r) == Cardinality({i \in Tasks : r.fields[i] # Null})

\* C24: when the primary change classification is deforestation,
\* vegetation_decline or vegetation_loss, the recommendations contain the two
\* urgent entries.
C24_LossIsUrgent ==
    (call.op = "_generate_monitoring_recommendations"
       /\ call.change_type \in {"deforestation", "vegetation_decline", "vegetation_loss"})
        => \E j \in 1..(Len(outcome.recommendations) - 1) :
              /\ outcome.recommendations[j] = "Urgent: Investigate causes of vegetation loss"
              /\ outcome.recommendations[j + 1] = "Implement protective measures immediately"

\* the band of a difference of NDVI means, in ten-thousandths
TrendBand(delta) ==
    CASE delta > 1000 -> "significantly_improving"
      [] delta > 500 /\ delta <= 1000 -> "improving"
      [] delta > -500 /\ delta <= 500 -> "stable"
      [] delta > -1000 /\ delta <= -500 -> "declining"
      [] delta <= -1000 -> "significantly_declining"

C28_AreaMetricsConsistent ==
    call.op = "detect_change"
        => LET a == outcome.area_analysis
           IN  /\ 0 <= a.changed_area_hectares
               /\ a.changed_area_hectares <= a.total_area_hectares
               /\ a.stable_area_hectares >= 0
               /\ 0 <= a.change_percentage
               /\ a.change_percentage <= 100 * 100

\* the classes that report a loss and those that report a gain
NegativeClasses ==
    {"deforestation", "forest_disturbance", "vegetation_decline", "moderate_disturbance",
     "vegetation_stress"}
PositiveClasses == {"afforestation", "vegetation_growth", "vegetation_improvement"}

\* C29: the Landsat classifier returns no negative class when the NDVI change
\* and the NBR change are both >= 0, and no positive class when the NDVI change
\* is <= 0.
C29_LabelAgreesWithSign ==
    (call.op = "detect_change" /\ call.client = "landsat")
        => /\ (outcome.ndvi_change >= 0 /\ outcome.nbr_change >= 0)
                => outcome.primary_change_type \notin NegativeClasses
           /\ outcome.ndvi_change <= 0
                => outcome.primary_change_type \notin PositiveClasses

\* C30: whenever the calculation of the indices succeeds, the Leaf Area Index
\* lies in [0.1, 8.0], fPAR in [0, 0.95], and the quality score is at most 100.
C30_IndicesBounded ==
    (call.op = "calculate_comprehensive_indices" /\ outcome.success)
        => /\ 1000 <= outcome.lai /\ outcome.lai <= 80000
           /\ 0 <= outcome.fpar /\ outcome.fpar <= 9500
           /\ outcome.overall_score <= 100

\* a successful calculation whose Leaf Area Index is held at the upper bound
C30_LaiAtUpperBound ==
    /\ call.op = "calculate_comprehensive_indices"
    /\ outcome.success
    /\ outcome.lai = 80000

LargerExtent(b, c) ==
    \/ /\ b[2] = c[2] /\ b[4] = c[4]
       /\ c[1] <= b[1] /\ b[3] <= c[3] /\ c[3] - c[1] > b[3] - b[1]
    \/ /\ b[1] = c[1] /\ b[3] = c[3]
       /\ c[2] <= b[2] /\ b[4] <= c[4] /\ c[4] - c[2] > b[4] - b[2]

\* C19: calculate_area_hectares is strictly increasing in each extent: of two
\* valid bounds that differ only by a larger longitude extent or only by a
\* larger latitude extent, the larger has the larger area.
C19_AreaIncreasing ==
    [][ (call.op = "calculate_area_hectares" /\ call'.op = "calculate_area_hectares"
          /\ LargerExtent(call.bounds, call'.bounds))
            => outcome'.area_hectares > outcome.area_hectares ]_vars

-----------------------------------------------------------------------------
(* Properties of the imagery lists *)

Ascending(imagery) ==
    \A i \in 1..Len(imagery) - 1 : imagery[i].acquired <= imagery[i + 1].acquired

\* C17: on the live and on the synthetic path the list returned by
\* get_imagery_metadata is in ascending order of acquisition date; on the
\* synthetic path every scene's date lies in [start_date, end_date], and the
\* list is empty when start_date > end_date.
C17_ListOrdered ==
    call.op = "imagery_list"
        => /\ Ascending(outcome.imagery)
           /\ outcome.src = "synthetic"
                => /\ \A i \in 1..Len(outcome.imagery) :
                         /\ call.start_date <= outcome.imagery[i].acquired
                         /\ outcome.imagery[i].acquired <= call.end_date
                   /\ call.start_date > call.end_date => outcome.imagery = <<>>

\* a catalog answered with three scenes out of order, across the turn of a year
C17_CatalogOutOfOrder ==
    /\ call.op = "imagery_list" /\ outcome.src = "live"
    /\ Len(outcome.catalog) = 3
    /\ outcome.catalog[1].acquired > outcome.catalog[2].acquired
    /\ outcome.catalog[2].acquired + 1 = outcome.catalog[3].acquired
    /\ outcome.imagery # outcome.catalog

\* C18: for sentinel2 and landsat, when the window has scenes but none passes
\* the cloud-cover filter, get_vegetation_index returns a result computed from
\* all the scenes and marks its interpretation as of low confidence.
C18_AllCloudyLowConfidence ==
    (call.op = "index_over_scenes" /\ call.client \in LiveClients
       /\ outcome.imagery # <<>>
       /\ \A i \in 1..Len(outcome.imagery) :
             outcome.imagery[i].cloud_cover > DefaultMaxCloud(call.client))
        => /\ outcome.res = "value"
           /\ outcome.imagery_used = outcome.imagery
           /\ outcome.confidence_level = "low"

====
